---------------------------- MODULE Spec2Model ----------------------------
(***************************************************************************)
(* Risk-scoring pipeline of the hospital ML service                        *)
(* (src/ml-service/risk_prediction_service.py, class RiskPredictionService *)
(* and its callers in src/ml-service/python_ml_service.py).                *)
(*                                                                         *)
(* Numbers.  Every risk score is a fixed-point integer in units of 1/Scale *)
(* (Scale = 10000, so 0.25 is 2500 and 0.95 is 9500).  The decision scores *)
(* of the Isolation Forest use the same unit (0.01 is 100).  The code      *)
(* computes in IEEE doubles; the only place where the fixed-point value     *)
(* differs from the real-number value is the division of the min-max       *)
(* normalisation, which is rounded down to one unit.                       *)
(*                                                                         *)
(* Strings.  TLA+ strings are atomic, so the substring tests of the code   *)
(* ('delete' in action) are computed on the character sequence Chars(s) of *)
(* each string.                                                            *)
(***************************************************************************)
EXTENDS Integers, Sequences, FiniteSets, TLC

VARIABLES
    label_encoders,   \* self.label_encoders: feature name -> classes_ (a sequence)
    iso_forest,       \* self.iso_forest: "None" or the fitted model
    is_trained,       \* self.is_trained
    disk,             \* the blob at model_path: NoBlob or what save_model wrote
    fitted_classes,   \* history: per feature, classes_ as the last fit_transform left it
    hash_seed,        \* the process's string-hash seed (PYTHONHASHSEED), fixed at start
    pc,               \* "idle": no call pending; "returned": result holds the last call's outcome
    call,             \* the last call: its name and arguments
    result            \* the last call's outcome

vars == <<label_encoders, iso_forest, is_trained, disk, fitted_classes, hash_seed, pc, call, result>>

-----------------------------------------------------------------------------
(* Fixed point *)

Scale == 100 * 100

Min(a, b) == IF a <= b THEN a ELSE b
Max(a, b) == IF a >= b THEN a ELSE b

-----------------------------------------------------------------------------
(* Strings as character sequences *)

Chars(s) ==
  CASE
  s = "view_patient_record" -> <<"v","i","e","w","_","p","a","t","i","e","n","t","_","r","e","c","o","r","d">>
  [] s = "classified_data_access" -> <<"c","l","a","s","s","i","f","i","e","d","_","d","a","t","a","_","a","c","c","e","s","s">>
  [] s = "delete_record" -> <<"d","e","l","e","t","e","_","r","e","c","o","r","d">>
  [] s = "export_data" -> <<"e","x","p","o","r","t","_","d","a","t","a">>
  [] s = "admin_access" -> <<"a","d","m","i","n","_","a","c","c","e","s","s">>
  [] s = "user_login" -> <<"u","s","e","r","_","l","o","g","i","n">>
  [] s = "failed_login_attempt" -> <<"f","a","i","l","e","d","_","l","o","g","i","n","_","a","t","t","e","m","p","t">>
  [] s = "financial_authentication" -> <<"f","i","n","a","n","c","i","a","l","_","a","u","t","h","e","n","t","i","c","a","t","i","o","n">>
  [] s = "audit_log_access" -> <<"a","u","d","i","t","_","l","o","g","_","a","c","c","e","s","s">>
  [] s = "update_profile" -> <<"u","p","d","a","t","e","_","p","r","o","f","i","l","e">>
  [] s = "jit_request" -> <<"j","i","t","_","r","e","q","u","e","s","t">>
  [] s = "DELETE_RECORD" -> <<"D","E","L","E","T","E","_","R","E","C","O","R","D">>
  [] s = "financial_report_access" -> <<"f","i","n","a","n","c","i","a","l","_","r","e","p","o","r","t","_","a","c","c","e","s","s">>
  [] s = "ADMIN_ACCESS" -> <<"A","D","M","I","N","_","A","C","C","E","S","S">>
  [] s = "classified" -> <<"c","l","a","s","s","i","f","i","e","d">>
  [] s = "remove_user" -> <<"r","e","m","o","v","e","_","u","s","e","r">>
  [] s = "download_report" -> <<"d","o","w","n","l","o","a","d","_","r","e","p","o","r","t">>
  [] s = "system_settings" -> <<"s","y","s","t","e","m","_","s","e","t","t","i","n","g","s">>
  [] s = "payment_history" -> <<"p","a","y","m","e","n","t","_","h","i","s","t","o","r","y">>
  [] s = "medical_history" -> <<"m","e","d","i","c","a","l","_","h","i","s","t","o","r","y">>
  [] s = "edit_notes" -> <<"e","d","i","t","_","n","o","t","e","s">>
  [] s = "read_chart" -> <<"r","e","a","d","_","c","h","a","r","t">>
  [] s = "authentication_update" -> <<"a","u","t","h","e","n","t","i","c","a","t","i","o","n","_","u","p","d","a","t","e">>
  [] s = "patient_authentication" -> <<"p","a","t","i","e","n","t","_","a","u","t","h","e","n","t","i","c","a","t","i","o","n">>
  [] s = "delete" -> <<"d","e","l","e","t","e">>
  [] s = "remove" -> <<"r","e","m","o","v","e">>
  [] s = "admin" -> <<"a","d","m","i","n">>
  [] s = "config" -> <<"c","o","n","f","i","g">>
  [] s = "settings" -> <<"s","e","t","t","i","n","g","s">>
  [] s = "export" -> <<"e","x","p","o","r","t">>
  [] s = "download" -> <<"d","o","w","n","l","o","a","d">>
  [] s = "audit" -> <<"a","u","d","i","t">>
  [] s = "log" -> <<"l","o","g">>
  [] s = "login" -> <<"l","o","g","i","n">>
  [] s = "authentication" -> <<"a","u","t","h","e","n","t","i","c","a","t","i","o","n">>
  [] s = "financial" -> <<"f","i","n","a","n","c","i","a","l">>
  [] s = "payment" -> <<"p","a","y","m","e","n","t">>
  [] s = "patient" -> <<"p","a","t","i","e","n","t">>
  [] s = "medical" -> <<"m","e","d","i","c","a","l">>
  [] s = "record" -> <<"r","e","c","o","r","d">>
  [] s = "update" -> <<"u","p","d","a","t","e">>
  [] s = "modify" -> <<"m","o","d","i","f","y">>
  [] s = "edit" -> <<"e","d","i","t">>
  [] s = "view" -> <<"v","i","e","w">>
  [] s = "read" -> <<"r","e","a","d">>
  [] s = "navigate" -> <<"n","a","v","i","g","a","t","e">>
  [] s = "failed" -> <<"f","a","i","l","e","d">>
  [] s = "unauthorized" -> <<"u","n","a","u","t","h","o","r","i","z","e","d">>
  [] s = "denied" -> <<"d","e","n","i","e","d">>
  [] s = "error" -> <<"e","r","r","o","r">>

\* str.lower(), per character (the upper-case letters that occur in Actions)
LowerChar(c) ==
    CASE c = "D" -> "d" [] c = "E" -> "e" [] c = "L" -> "l" [] c = "T" -> "t"
      [] c = "R" -> "r" [] c = "C" -> "c" [] c = "O" -> "o"
      [] c = "A" -> "a" [] c = "M" -> "m" [] c = "I" -> "i" [] c = "N" -> "n"
      [] c = "S" -> "s"
      [] OTHER -> c

LowerChars(s) == [i \in 1..Len(s) |-> LowerChar(s[i])]

\* Python's `needle in hay` on strings
Contains(hay, needle) ==
    \E i \in 0..(Len(hay) - Len(needle)) :
        \A j \in 1..Len(needle) : hay[i + j] = needle[j]

\* str.lower() on the whole-string values of user_role and device_type
Lower(s) ==
    CASE s = "Admin" -> "admin"
      [] OTHER -> s

\* row.get(field, default): Absent marks a column the DataFrame does not have
Absent == "<absent>"
Get(v, default) == IF v = Absent THEN default ELSE v

-----------------------------------------------------------------------------
(* Feature transform: preprocess_data *)

\* pd.to_datetime(errors='coerce') on the timestamps of the model; an
\* unparsable text and a missing value both become NaT (valid = FALSE).
\* day_of_week: Monday = 0 .. Sunday = 6.
to_datetime(ts) ==
    CASE ts = "2025-09-22 14:30:00" -> [valid |-> TRUE, hour |-> 14, day_of_week |-> 0]
      [] ts = "2025-09-21 02:15:00" -> [valid |-> TRUE, hour |-> 2, day_of_week |-> 6]
      [] ts = "2025-09-24 11:00:00" -> [valid |-> TRUE, hour |-> 11, day_of_week |-> 2]
      [] ts = "2025-09-27 20:45:00" -> [valid |-> TRUE, hour |-> 20, day_of_week |-> 5]
      [] OTHER -> [valid |-> FALSE, hour |-> 0, day_of_week |-> 0]

is_weekend_of(day_of_week) == IF day_of_week >= 5 THEN 1 ELSE 0

is_business_hours_of(hour) == IF 9 <= hour /\ hour <= 17 THEN 1 ELSE 0

\* a plausible slip: the keywords of the behaviour profiler are used
sensitive_keywords ==
    {"admin", "delete", "export", "audit", "config", "classified", "financial"}

sensitive_actions ==
    {"admin_access", "audit_log_access", "financial_report_access", "classified_data_access"}

failed_indicators == {"failed", "unauthorized", "denied", "error"}

\* the action strings of the model
Actions ==
    {"view_patient_record", "classified_data_access", "delete_record", "export_data",
     "admin_access", "user_login", "failed_login_attempt", "financial_authentication",
     "audit_log_access", "update_profile", "jit_request", "DELETE_RECORD",
     "financial_report_access", "ADMIN_ACCESS", "remove_user", "download_report",
     "system_settings", "payment_history", "medical_history", "edit_notes",
     "read_chart", "authentication_update", "patient_authentication"}

\* any(k in str(x).lower() for k in keywords)
AnyIn(keywords, action) ==
    \E k \in keywords : Contains(LowerChars(Chars(action)), Chars(k))

\* the two flags of every action of the model, computed once
SensitiveFlag == [a \in Actions |-> IF AnyIn(sensitive_actions, a) THEN 1 ELSE 0]
FailedFlag == [a \in Actions |-> IF AnyIn(failed_indicators, a) THEN 1 ELSE 0]

is_sensitive_action_of(action) == SensitiveFlag[action]
is_failed_action_of(action) == FailedFlag[action]

categorize_session_length(period) ==
    IF period <= 0 THEN "short"
    ELSE IF period < 30 THEN "short"
    ELSE IF period < 120 THEN "medium"
    ELSE "long"

\* The derived columns of one row; idx is the row's index label, which
\* dropna keeps (the position in the input batch, from 0).
Enrich(rec, idx) ==
    LET t == to_datetime(rec.timestamp) IN
    [ idx                     |-> idx,
      username                |-> rec.username,
      timestamp               |-> rec.timestamp,
      user_role               |-> rec.user_role,
      ip_address              |-> rec.ip_address,
      device_type             |-> rec.device_type,
      action                  |-> rec.action,
      session_period          |-> rec.session_period,
      hour                    |-> t.hour,
      day_of_week             |-> t.day_of_week,
      is_weekend              |-> is_weekend_of(t.day_of_week),
      is_business_hours       |-> is_business_hours_of(t.hour),
      is_sensitive_action     |-> is_sensitive_action_of(rec.action),
      is_failed_action        |-> is_failed_action_of(rec.action),
      session_length_category |-> categorize_session_length(rec.session_period) ]

\* a plausible slip: no row is dropped
keep_all(rows, i) == [k \in 1..Len(rows) |-> Enrich(rows[k], k - 1)]

\* dropna(subset=['timestamp']): the rows whose timestamp parsed, in input order
RECURSIVE dropna(_, _)
dropna(rows, i) ==
    IF i > Len(rows) THEN <<>>
    ELSE (IF to_datetime(rows[i].timestamp).valid
          THEN <<Enrich(rows[i], i - 1)>> ELSE <<>>) \o dropna(rows, i + 1)

DerivedColumns ==
    {"hour", "day_of_week", "is_weekend", "is_business_hours",
     "is_sensitive_action", "is_failed_action", "session_length_category"}

\* df_processed: the kept rows, enriched, and the columns they now have
preprocess_data(df) ==
    [columns |-> df.columns \cup DerivedColumns, rows |-> dropna(df.rows, 1)]

-----------------------------------------------------------------------------
(* Heuristic scorer: _generate_realistic_risk_scores, one row *)

RoleIncrement(user_role) ==
    LET r == Lower(Get(user_role, "employee")) IN
    CASE r = "admin"   -> 1500
      [] r = "manager" -> 1000
      [] r = "doctor"  -> 800
      [] r = "nurse"   -> 500
      [] r = "guest"   -> 200
      [] OTHER         -> 0

\* the elif chain of lines 269-286, in the code's order
\* a plausible slip: financial/payment is tested before login/authentication,
\* after update/modify/edit
ActionChainLoginLate(a) ==
    LET in(k) == Contains(a, Chars(k)) IN
    IF in("delete") \/ in("remove") THEN 2500
    ELSE IF in("admin") \/ in("config") \/ in("settings") THEN 2000
    ELSE IF in("export") \/ in("download") THEN 1500
    ELSE IF in("audit") \/ in("log") THEN 1200
    ELSE IF in("financial") \/ in("payment") THEN 1800
    ELSE IF in("patient") \/ in("medical") \/ in("record") THEN 1000
    ELSE IF in("update") \/ in("modify") \/ in("edit") THEN 1200
    ELSE IF in("login") \/ in("authentication") THEN 800
    ELSE IF in("view") \/ in("read") \/ in("navigate") THEN 300
    ELSE 0

\* a plausible slip: view/read/navigate is tested before
\* patient/medical/record
ActionChainViewEarly(a) ==
    LET in(k) == Contains(a, Chars(k)) IN
    IF in("delete") \/ in("remove") THEN 2500
    ELSE IF in("admin") \/ in("config") \/ in("settings") THEN 2000
    ELSE IF in("export") \/ in("download") THEN 1500
    ELSE IF in("audit") \/ in("log") THEN 1200
    ELSE IF in("login") \/ in("authentication") THEN 800
    ELSE IF in("financial") \/ in("payment") THEN 1800
    ELSE IF in("view") \/ in("read") \/ in("navigate") THEN 300
    ELSE IF in("patient") \/ in("medical") \/ in("record") THEN 1000
    ELSE IF in("update") \/ in("modify") \/ in("edit") THEN 1200
    ELSE 0

ActionChain(a) ==
    LET in(k) == Contains(a, Chars(k)) IN
    IF in("delete") \/ in("remove") THEN 2500
    ELSE IF in("admin") \/ in("config") \/ in("settings") THEN 2000
    ELSE IF in("export") \/ in("download") THEN 1500
    ELSE IF in("audit") \/ in("log") THEN 1200
    ELSE IF in("login") \/ in("authentication") THEN 800
    ELSE IF in("financial") \/ in("payment") THEN 1800
    ELSE IF in("patient") \/ in("medical") \/ in("record") THEN 1000
    ELSE IF in("update") \/ in("modify") \/ in("edit") THEN 1200
    ELSE IF in("view") \/ in("read") \/ in("navigate") THEN 300
    ELSE 0

\* the increment of every action of the model, computed once
ActionRisk == [a \in Actions |-> ActionChain(LowerChars(Chars(a)))]

ActionIncrement(action) == ActionRisk[action]

\* a plausible slip: the late-night branch is missing
TimeIncrementNoNight(hour) ==
    IF hour >= 19 THEN 1000
    ELSE IF hour >= 6 /\ hour < 9 THEN 500
    ELSE -500

TimeIncrement(hour) ==
    IF hour >= 0 /\ hour < 6 THEN 1500
    ELSE IF hour >= 19 THEN 1000
    ELSE IF hour >= 6 /\ hour < 9 THEN 500
    ELSE -500

\* is_weekend is a column of every preprocessed row; the elif re-derives the
\* weekday from the row's timestamp (here the row's day_of_week)
WeekendIncrement(row) ==
    IF row.is_weekend = 1 THEN 1200
    ELSE IF row.day_of_week >= 5 THEN 1200
    ELSE 0

DeviceIncrement(device_type) ==
    LET d == Lower(Get(device_type, "desktop")) IN
    IF d = "new" \/ d = "unknown" THEN 1500
    ELSE IF d = "mobile" THEN 800
    ELSE IF d = "tablet" THEN 600
    ELSE 0

\* a plausible slip: the bound of the long-session branch is inclusive
SessionIncrementFrom120(session_period) ==
    IF session_period > 240 THEN 1000
    ELSE IF session_period < 5 THEN 800
    ELSE IF session_period >= 120 THEN 500
    ELSE 0

SessionIncrement(session_period) ==
    IF session_period > 240 THEN 1000
    ELSE IF session_period < 5 THEN 800
    ELSE IF session_period > 120 THEN 500
    ELSE 0

SensitiveIncrement(row) == IF row.is_sensitive_action = 1 THEN 2000 ELSE 0

FailedIncrement(row) == IF row.is_failed_action = 1 THEN 2500 ELSE 0

\* base_score before the clamp (line 349)
BaseScore(row, random_factor) ==
    2500 + RoleIncrement(row.user_role) + ActionIncrement(row.action)
         + TimeIncrement(row.hour) + WeekendIncrement(row)
         + DeviceIncrement(row.device_type) + SessionIncrement(row.session_period)
         + SensitiveIncrement(row) + FailedIncrement(row) + random_factor

\* a plausible slip: the result is not clamped
FinalScoreNoClamp(base_score) == base_score

\* final_score = max(0.05, min(0.95, base_score))
FinalScore(base_score) == Max(500, Min(9500, base_score))

RowScore(row, random_factor) == FinalScore(BaseScore(row, random_factor))

-----------------------------------------------------------------------------
(* Risk classifier: calculate_risk_level *)

\* a plausible slip: strict comparisons at the thresholds
calculate_risk_level_strict(risk_score) ==
    IF risk_score > 7000 THEN "high"
    ELSE IF risk_score > 4000 THEN "medium"
    ELSE "low"

calculate_risk_level(risk_score) ==
    IF risk_score >= 7000 THEN "high"
    ELSE IF risk_score >= 4000 THEN "medium"
    ELSE "low"

LevelRank(level) ==
    CASE level = "low" -> 0 [] level = "medium" -> 1 [] level = "high" -> 2

-----------------------------------------------------------------------------
(* Categorical encoder: encode_features *)

categorical_features ==
    <<"user_role", "ip_address", "device_type", "action",
      "is_business_hours", "is_sensitive_action", "is_failed_action",
      "session_length_category">>

feature_columns ==
    <<"user_role", "ip_address", "device_type", "action",
      "hour", "day_of_week", "is_weekend", "is_business_hours",
      "is_sensitive_action", "is_failed_action", "session_period",
      "session_length_category">>

Range(s) == {s[i] : i \in 1..Len(s)}

\* The values a categorical column of the model can hold, in the order of
\* Python's string comparison, which np.unique and pd.Categorical sort by.
SortedValues ==
    <<"0", "1", "10.0.0.1", "10.0.0.2", "10.0.0.9", "Admin", "admin",
      "classified_data_access", "contractor", "delete_record", "desktop",
      "doctor", "failed_login_attempt", "guest", "long", "medium", "mobile",
      "new", "nurse", "short", "tablet", "unknown", "user_login",
      "view_patient_record">>

\* astype(str) of a cell: the three flag columns hold the integers 0 and 1
AsStr(feature, row) ==
    IF feature \in {"is_business_hours", "is_sensitive_action", "is_failed_action"}
    THEN (IF row[feature] = 1 THEN "1" ELSE "0")
    ELSE row[feature]

\* LabelEncoder.fit: classes_ = the sorted distinct values of the column
fit_classes(feature, rows) ==
    LET present(v) == \E i \in 1..Len(rows) : AsStr(feature, rows[i]) = v
    IN  SelectSeq(SortedValues, present)

\* position of v in classes_ (from 0), the code LabelEncoder.transform gives a
\* string: it looks the value up in a table built by enumerating classes_ as
\* it stands, so that of two equal entries the later one gives the code;
\* TransformError when v is not in classes_ (transform raises ValueError)
TransformError == 0 - 1
transform(classes, v) ==
    IF v \in Range(classes)
    THEN (CHOOSE i \in 1..Len(classes) :
             /\ classes[i] = v
             /\ \A j \in (i + 1)..Len(classes) : classes[j] # v) - 1
    ELSE TransformError

\* a plausible slip: 'unknown' is put in front of the fitted classes
AddUnknownFirst(classes) ==
    IF "unknown" \in Range(classes) THEN classes ELSE <<"unknown">> \o classes

\* a plausible slip: 'unknown' is appended without the test of line 116
AddUnknownAlways(classes) == Append(classes, "unknown")

\* lines 116-119: 'unknown' is appended when classes_ does not hold it
AddUnknown(classes) ==
    IF "unknown" \in Range(classes) THEN classes ELSE Append(classes, "unknown")

\* a plausible slip: a value not seen during fit is passed on as it is
RemapKeep(classes, v) == v

\* lines 110-113: a value not among the known categories becomes 'unknown'
Remap(classes, v) == IF v \in Range(classes) THEN v ELSE "unknown"

CategoricalIn(columns) == {f \in Range(categorical_features) : f \in columns}

\* a plausible slip: 'unknown' is appended only when a value of the batch
\* is not among the known categories
EncodersAfterOnDemand(le, df, fit_encoders) ==
    LET touched == IF fit_encoders THEN CategoricalIn(df.columns)
                   ELSE CategoricalIn(df.columns) \cap DOMAIN le
    IN  [f \in (DOMAIN le) \cup touched |->
            IF f \notin touched THEN le[f]
            ELSE IF fit_encoders THEN fit_classes(f, df.rows)
            ELSE IF \E i \in 1..Len(df.rows) : AsStr(f, df.rows[i]) \notin Range(le[f])
                 THEN AddUnknown(le[f])
            ELSE le[f]]

\* a plausible slip: fitting keeps the encoder a feature already has
EncodersAfterKeep(le, df, fit_encoders) ==
    LET touched == IF fit_encoders THEN CategoricalIn(df.columns)
                   ELSE CategoricalIn(df.columns) \cap DOMAIN le
    IN  [f \in (DOMAIN le) \cup touched |->
            IF f \notin touched THEN le[f]
            ELSE IF fit_encoders
                 THEN (IF f \in DOMAIN le THEN le[f] ELSE fit_classes(f, df.rows))
            ELSE AddUnknown(le[f])]

\* self.label_encoders after encode_features(df, fit_encoders) on encoders le
EncodersAfter(le, df, fit_encoders) ==
    LET touched == IF fit_encoders THEN CategoricalIn(df.columns)
                   ELSE CategoricalIn(df.columns) \cap DOMAIN le
    IN  [f \in (DOMAIN le) \cup touched |->
            IF f \notin touched THEN le[f]
            ELSE IF fit_encoders THEN fit_classes(f, df.rows)
            ELSE AddUnknown(le[f])]

\* the code of one cell of df_encoded
EncodeCell(le, feature, df, row, fit_encoders) ==
    IF fit_encoders
    THEN transform(fit_classes(feature, df.rows), AsStr(feature, row))
    ELSE IF feature \in DOMAIN le
    THEN transform(AddUnknown(le[feature]), Remap(le[feature], AsStr(feature, row)))
    \* no encoder: pd.Categorical(column).codes, the codes of this batch alone
    ELSE transform(fit_classes(feature, df.rows), AsStr(feature, row))

\* df_encoded restricted to the categorical columns: per row, feature -> code
encode_features(le, df, fit_encoders) ==
    [i \in 1..Len(df.rows) |->
        [f \in CategoricalIn(df.columns) |->
            EncodeCell(le, f, df, df.rows[i], fit_encoders)]]

\* line 141: the feature columns the frame has, in order
available_features(df) == SelectSeq(feature_columns, LAMBDA c : c \in df.columns)

\* prepare_features: the rows of X, the available feature columns in order
prepare_features(df, encoded) ==
    LET available == available_features(df)
    IN  [i \in 1..Len(df.rows) |->
            [k \in 1..Len(available) |->
                IF available[k] \in Range(categorical_features)
                THEN encoded[i][available[k]]
                ELSE df.rows[i][available[k]]]]

-----------------------------------------------------------------------------
(* Anomaly model wrapper: the scoring of predict_risk_scores *)

\* Decision scores the Isolation Forest can return for a row (units of
\* 1/Scale): -0.15, -0.005 and 0.004.  Two of them differ by less than 0.01,
\* and two are negative (outliers).
RawScores == {0 - 1500, 0 - 50, 40}

\* decision_function(X): a function of the row of X, otherwise arbitrary
decision_function(X) ==
    {r \in [1..Len(X) -> RawScores] :
        \A i, j \in 1..Len(X) : X[i] = X[j] => r[i] = r[j]}

\* IsolationForest.predict: -1 where the decision score is negative, else 1
anomaly_prediction(score) == IF score < 0 THEN 0 - 1 ELSE 1

SeqMin(s) == CHOOSE m \in Range(s) : \A x \in Range(s) : m <= x
SeqMax(s) == CHOOSE m \in Range(s) : \A x \in Range(s) : m >= x

\* the seed of line 347 is hash(username + timestamp + idx); the string hash
\* is an arbitrary function fixed by the process's hash seed
StrCode(s) ==
    CASE s = "alice" -> 1 [] s = "root" -> 2 [] s = "bob" -> 3 [] s = "eve" -> 4
      [] s = "2025-09-22 14:30:00" -> 5 [] s = "2025-09-21 02:15:00" -> 7
      [] s = "2025-09-24 11:00:00" -> 11 [] s = "2025-09-27 20:45:00" -> 13
      [] OTHER -> 0

\* the values random.uniform(-0.05, 0.05) takes in the model
JitterValues == <<0 - 500, 0 - 250, 0, 250, 500>>

random_factor(seed, row) ==
    JitterValues[((seed + StrCode(Get(row.username, "")) + StrCode(row.timestamp)
                   + row.idx) % Len(JitterValues)) + 1]

\* a plausible slip: the generator is seeded once, from the first row
rule_based_scores_one_seed(seed, rows) ==
    [i \in 1..Len(rows) |-> RowScore(rows[i], random_factor(seed, rows[1]))]

rule_based_scores(seed, rows) ==
    [i \in 1..Len(rows) |-> RowScore(rows[i], random_factor(seed, rows[i]))]

\* a plausible slip: only exactly equal scores count as uniform
NearlyUniformExact(anomaly_scores) == SeqMax(anomaly_scores) - SeqMin(anomaly_scores) < 1

\* line 224: max_score - min_score < 0.01
NearlyUniform(anomaly_scores) == SeqMax(anomaly_scores) - SeqMin(anomaly_scores) < 100

\* a plausible slip: the normalized score is not inverted
normalized_score_plain(anomaly_scores, i) ==
    LET lo == SeqMin(anomaly_scores)
        hi == SeqMax(anomaly_scores)
    IN  ((anomaly_scores[i] - lo) * Scale) \div (hi - lo)

\* line 229: 1 - (score - min) / (max - min)
normalized_score(anomaly_scores, i) ==
    LET lo == SeqMin(anomaly_scores)
        hi == SeqMax(anomaly_scores)
    IN  Scale - ((anomaly_scores[i] - lo) * Scale) \div (hi - lo)

\* a plausible slip: the model term is left out of the blend
BlendRuleOnly(normalized, rule_based) == (3 * rule_based) \div 10

\* line 235: 0.7 * normalized + 0.3 * rule_based
Blend(normalized, rule_based) == (7 * normalized + 3 * rule_based) \div 10

\* a plausible slip: the boost is not capped
BoostNoCap(score) == (13 * score) \div 10

\* line 240: min(0.95, score * 1.3)
Boost(score) == Min(9500, (13 * score) \div 10)

risk_scores(seed, rows, anomaly_scores) ==
    LET rule_based == rule_based_scores(seed, rows) IN
    IF NearlyUniform(anomaly_scores)
    THEN rule_based
    ELSE [i \in 1..Len(rows) |->
            LET blended == Blend(normalized_score(anomaly_scores, i), rule_based[i])
            IN  IF anomaly_prediction(anomaly_scores[i]) = 0 - 1
                THEN Boost(blended) ELSE blended]

-----------------------------------------------------------------------------
(* Inputs: events, batches, training files *)

Rec(username, user_role, ip_address, device_type, timestamp, action, session_period) ==
    [username |-> username, user_role |-> user_role, ip_address |-> ip_address,
     device_type |-> device_type, timestamp |-> timestamp, action |-> action,
     session_period |-> session_period]

NurseView == Rec("alice", "nurse", "10.0.0.1", "desktop",
                 "2025-09-24 11:00:00", "view_patient_record", 45)
AdminNight == Rec("root", "admin", "10.0.0.9", "new",
                  "2025-09-21 02:15:00", "classified_data_access", 500)
DoctorDelete == Rec("bob", "doctor", "10.0.0.2", "unknown",
                    "2025-09-22 14:30:00", "delete_record", 130)
ContractorFail == Rec("eve", "contractor", "unknown", "tablet",
                      "2025-09-27 20:45:00", "failed_login_attempt", 3)
GuestBadTime == Rec("eve", "guest", "10.0.0.1", "mobile",
                    "not-a-date", "user_login", 20)

Records == {NurseView, AdminNight, DoctorDelete, ContractorFail, GuestBadTime}

\* the longest batch of a predict call
MaxBatch == 2

RawColumns ==
    {"username", "user_role", "ip_address", "device_type", "timestamp", "action",
     "session_period"}

\* the column sets of the model's DataFrames: all columns, or no device_type
ColumnSets == {RawColumns, RawColumns \ {"device_type"}}

\* pd.DataFrame(records) with the given columns: a cell of a column the
\* frame does not have is Absent
DataFrame(records, columns) ==
    [columns |-> columns,
     rows |-> [i \in 1..Len(records) |->
                 [c \in RawColumns |-> IF c \in columns THEN records[i][c] ELSE Absent]]]

Batches ==
    {DataFrame(recs, cols) :
        recs \in UNION {[1..n -> Records] : n \in 1..MaxBatch}, cols \in ColumnSets}

CsvFiles ==
    {"hospital_behavior_dataset_1.csv", "hospital_behavior_dataset_2.csv",
     "hospital_behavior_dataset_3.csv", "hospital_behavior_dataset_4.csv"}

\* pd.read_csv: file 4 does not exist, file 3 holds no parsable timestamp,
\* file 2 has no device_type column
read_csv(csv_file) ==
    CASE csv_file = "hospital_behavior_dataset_1.csv" ->
            [readable |-> TRUE,
             df |-> DataFrame(<<NurseView, AdminNight, DoctorDelete, GuestBadTime>>, RawColumns)]
      [] csv_file = "hospital_behavior_dataset_2.csv" ->
            [readable |-> TRUE,
             df |-> DataFrame(<<NurseView, ContractorFail>>,
                              RawColumns \ {"device_type"})]
      [] csv_file = "hospital_behavior_dataset_3.csv" ->
            [readable |-> TRUE, df |-> DataFrame(<<GuestBadTime>>, RawColumns)]
      [] OTHER ->
            [readable |-> FALSE, df |-> DataFrame(<<>>, RawColumns)]

\* the hash seeds a process can start with
Seeds == {0, 1}

-----------------------------------------------------------------------------
(* Service state *)

NoEncoders == [f \in {} |-> <<>>]

\* self.iso_forest: None, the IsolationForest object before fit, or after
\* fit (fit_on names the training file, features the columns of the X it was
\* fitted on, which the model remembers and checks its input against)
NoModel == [fitted |-> FALSE, fit_on |-> "None", features |-> <<>>]
NewModel == [fitted |-> FALSE, fit_on |-> "unfitted", features |-> <<>>]
FittedModel(csv_file, features) ==
    [fitted |-> TRUE, fit_on |-> csv_file, features |-> features]

NoBlob == [exists |-> FALSE, label_encoders |-> NoEncoders, iso_forest |-> NoModel,
           is_trained |-> FALSE, fitted_classes |-> NoEncoders]

\* outcome of a call; fields a call does not produce stay empty
\*   scores:         the list predict_risk_scores returns
\*   idx:            per score, the index of the input row it was computed from
\*   encoded:        df_encoded (categorical columns) of the call
\*   anomaly_scores: the decision scores of the call (<<>> when not computed)
\*   value:          the scalar a call returns (a score), else -1
\*   level:          the risk level a call returns, else ""
Outcome(status, error, scores, idx, encoded, anomaly_scores, value, level) ==
    [status |-> status, error |-> error, scores |-> scores, idx |-> idx,
     encoded |-> encoded, anomaly_scores |-> anomaly_scores, value |-> value,
     level |-> level]

NoResult == Outcome("none", "", <<>>, <<>>, <<>>, <<>>, 0 - 1, "")
Raised(error) == Outcome("error", error, <<>>, <<>>, <<>>, <<>>, 0 - 1, "")
Scores(scores, idx, encoded, anomaly_scores) ==
    Outcome("ok", "", scores, idx, encoded, anomaly_scores, 0 - 1, "")
Scalar(value) == Outcome("ok", "", <<>>, <<>>, <<>>, <<>>, value, "")
Level(level) == Outcome("ok", "", <<>>, <<>>, <<>>, <<>>, 0 - 1, level)

NotTrainedError == "Model is not trained. Please train the model first."

\* __init__ followed by load_model with the blob on disk
Constructed(blob) ==
    IF blob.exists
    THEN [label_encoders |-> blob.label_encoders, iso_forest |-> blob.iso_forest,
          is_trained |-> blob.is_trained, fitted_classes |-> blob.fitted_classes]
    ELSE [label_encoders |-> NoEncoders, iso_forest |-> NoModel,
          is_trained |-> FALSE, fitted_classes |-> NoEncoders]

Init ==
    /\ label_encoders = NoEncoders
    /\ iso_forest = NoModel
    /\ is_trained = FALSE
    /\ disk = NoBlob
    /\ fitted_classes = NoEncoders
    /\ hash_seed \in Seeds
    /\ pc = "idle"
    /\ call = [op |-> "__init__"]
    /\ result = NoResult

-----------------------------------------------------------------------------
(* Operations of RiskPredictionService *)

\* a plausible slip: the guard of line 197 is missing
NotTrainedUnchecked(trained) == FALSE

\* line 197: if not self.is_trained
NotTrained(trained) == ~trained

\* The outcomes of predict_risk_scores(df) in the current state: what it
\* returns or raises, and self.label_encoders afterwards.
predict_risk_scores(df) ==
    IF NotTrained(is_trained)
    THEN {[result |-> Raised(NotTrainedError), label_encoders |-> label_encoders]}
    ELSE
      LET df_processed == preprocess_data(df)
          rows         == df_processed.rows
          idx          == [i \in 1..Len(rows) |-> rows[i].idx]
          df_encoded   == encode_features(label_encoders, df_processed, FALSE)
          encoders     == EncodersAfter(label_encoders, df_processed, FALSE)
          X            == prepare_features(df_processed, df_encoded)
      IN
      IF Len(rows) = 0
      THEN {[result |-> Scores(<<>>, <<>>, <<>>, <<>>), label_encoders |-> label_encoders]}
      ELSE IF \E i \in 1..Len(rows) : \E f \in DOMAIN df_encoded[i] :
                 df_encoded[i][f] = TransformError
      THEN {[result |-> Raised("ValueError: y contains previously unseen labels"),
             label_encoders |-> encoders]}
      ELSE IF ~iso_forest.fitted
      THEN {[result |-> Raised("NotFittedError"), label_encoders |-> encoders]}
      ELSE IF available_features(df_processed) # iso_forest.features
      THEN \* decision_function rejects an X whose columns are not those of the fit
           {[result |-> Raised("ValueError: feature names do not match the fit"),
             label_encoders |-> encoders]}
      ELSE {[result |-> Scores(risk_scores(hash_seed, rows, anomaly_scores), idx,
                               df_encoded, anomaly_scores),
             label_encoders |-> encoders] :
                anomaly_scores \in decision_function(X)}

\* a plausible slip: the default is returned whatever the list holds
SingleResultDefault(scores) == 5000

\* line 364: risk_scores[0] if risk_scores else 0.5
SingleResult(scores) == IF Len(scores) > 0 THEN scores[1] ELSE 5000

Predict ==
    /\ pc = "idle"
    /\ \E df \in Batches : \E out \in predict_risk_scores(df) :
          /\ call' = [op |-> "predict_risk_scores", df |-> df]
          /\ result' = out.result
          /\ label_encoders' = out.label_encoders
    /\ pc' = "returned"
    /\ UNCHANGED <<iso_forest, is_trained, disk, fitted_classes, hash_seed>>

PredictSingle ==
    /\ pc = "idle"
    /\ \E record_data \in Records : \E columns \in ColumnSets :
       LET df == DataFrame(<<record_data>>, columns) IN
       \E out \in predict_risk_scores(df) :
          /\ call' = [op |-> "predict_single_record", df |-> df]
          /\ result' = IF out.result.status = "ok"
                       THEN [out.result EXCEPT !.value = SingleResult(out.result.scores)]
                       ELSE out.result
          /\ label_encoders' = out.label_encoders
    /\ pc' = "returned"
    /\ UNCHANGED <<iso_forest, is_trained, disk, fitted_classes, hash_seed>>

\* round(risk_score, 3): the nearest multiple of 0.001; a score halfway
\* between two is rounded by its binary representation, up or down
round3(risk_score) ==
    LET down == (risk_score \div 10) * 10 IN
    IF risk_score % 10 < 5 THEN {down}
    ELSE IF risk_score % 10 > 5 THEN {down + 10}
    ELSE {down, down + 10}

\* the entry of the response for input position i
\* (from 0): risk_scores[i] if i < len(risk_scores) else 0.5
ReportedScore(scores, i) == IF i < Len(scores) THEN scores[i + 1] ELSE 5000

\* the responses of /predict/batch to the records of df: one prediction per
\* input record, or the error the handler answers with
BatchResponses(df, out) ==
    IF out.result.status # "ok"
    THEN {[status |-> "error", error |-> out.result.error, predictions |-> <<>>,
           risk_scores |-> <<>>, idx |-> <<>>]}
    ELSE {[status |-> "ok", error |-> "", predictions |-> predictions,
           risk_scores |-> out.result.scores, idx |-> out.result.idx] :
             predictions \in
               {p \in [1..Len(df.rows) ->
                         [index : 0..(Len(df.rows) - 1),
                          risk_score : UNION {round3(ReportedScore(out.result.scores, i)) :
                                                i \in 0..(Len(df.rows) - 1)},
                          risk_level : {"low", "medium", "high"}]] :
                   \A n \in 1..Len(df.rows) :
                       /\ p[n].index = n - 1
                       /\ p[n].risk_score \in round3(ReportedScore(out.result.scores, n - 1))
                       /\ p[n].risk_level =
                             calculate_risk_level(ReportedScore(out.result.scores, n - 1))}}

\* the request bodies of /predict/batch: records with every field
BatchRequests == {df \in Batches : df.columns = RawColumns}

\* POST /predict/batch with the records of df
PredictBatch ==
    /\ pc = "idle"
    /\ \E df \in BatchRequests : \E out \in predict_risk_scores(df) :
       \E response \in BatchResponses(df, out) :
          /\ call' = [op |-> "predict_batch", df |-> df]
          /\ result' = response
          /\ label_encoders' = out.label_encoders
    /\ pc' = "returned"
    /\ UNCHANGED <<iso_forest, is_trained, disk, fitted_classes, hash_seed>>

\* save_model: the blob written to model_path
Blob(le, model, trained, fitted) ==
    [exists |-> TRUE, label_encoders |-> le, iso_forest |-> model,
     is_trained |-> trained, fitted_classes |-> fitted]

\* train_model(csv_file); save_ok: whether joblib.dump succeeds
TrainModel ==
    /\ pc = "idle"
    /\ \E csv_file \in CsvFiles : \E save_ok \in BOOLEAN :
       LET file         == read_csv(csv_file)
           df_processed == preprocess_data(file.df)
           encoders     == EncodersAfter(label_encoders, df_processed, TRUE)
           refit        == CategoricalIn(df_processed.columns)
           fitted       == [f \in DOMAIN encoders |->
                              IF f \in refit THEN encoders[f] ELSE fitted_classes[f]]
           model        == FittedModel(csv_file, available_features(df_processed))
       IN
       /\ call' = [op |-> "train_model", csv_file |-> csv_file]
       /\ IF ~file.readable
          THEN /\ result' = Raised("FileNotFoundError")
               /\ UNCHANGED <<label_encoders, iso_forest, is_trained, disk, fitted_classes>>
          ELSE IF Len(df_processed.rows) = 0
          THEN \* IsolationForest.fit raises on an empty X; the encoders are
               \* refitted and self.iso_forest is the new, unfitted object
               /\ result' = Raised("ValueError: Found array with 0 sample(s)")
               /\ label_encoders' = encoders
               /\ fitted_classes' = fitted
               /\ iso_forest' = NewModel
               /\ UNCHANGED <<is_trained, disk>>
          ELSE /\ label_encoders' = encoders
               /\ fitted_classes' = fitted
               /\ iso_forest' = model
               /\ is_trained' = TRUE
               /\ IF save_ok
                  THEN /\ disk' = Blob(encoders, model, TRUE, fitted)
                       /\ result' = Outcome("ok", "", <<>>, <<>>, <<>>, <<>>, 0 - 1, "")
                  ELSE /\ disk' = disk
                       /\ result' = Raised("OSError")
    /\ pc' = "returned"
    /\ UNCHANGED hash_seed

\* the caller takes the outcome; the service is ready for the next call
Return ==
    /\ pc = "returned"
    /\ pc' = "idle"
    /\ call' = [op |-> "idle"]
    /\ result' = NoResult
    /\ UNCHANGED <<label_encoders, iso_forest, is_trained, disk, fitted_classes, hash_seed>>

\* the process is started again: __init__ and load_model, with a new hash seed
Restart ==
    /\ pc = "idle"
    /\ LET s == Constructed(disk) IN
          /\ label_encoders' = s.label_encoders
          /\ iso_forest' = s.iso_forest
          /\ is_trained' = s.is_trained
          /\ fitted_classes' = s.fitted_classes
    /\ hash_seed' \in Seeds
    /\ call' = [op |-> "__init__"]
    /\ result' = NoResult
    /\ UNCHANGED <<disk, pc>>

Next == Predict \/ PredictSingle \/ PredictBatch \/ TrainModel \/ Return \/ Restart

Spec == Init /\ [][Next]_vars

-----------------------------------------------------------------------------
(* The heuristic scorer on its own: every row of HeurRows, every jitter *)

HeurRoles == {"admin", "manager", "doctor", "nurse", "guest", "employee"}
HeurActions ==
    {"delete_record", "classified_data_access", "view_patient_record",
     "failed_login_attempt", "jit_request"}
HeurHours == {2, 7, 11, 18, 20}
\* is_weekend and the weekday of the timestamp
HeurDays == {<<0, 2>>, <<1, 6>>, <<0, 6>>}
HeurDevices == {"new", "mobile", "tablet", "desktop"}
HeurSessions == {3, 45, 200, 500}
Flags == {0, 1}

HeurProduct ==
    {[user_role |-> r, action |-> a, hour |-> h, is_weekend |-> d[1],
      day_of_week |-> d[2], device_type |-> dev, session_period |-> p,
      is_sensitive_action |-> s, is_failed_action |-> f] :
        r \in HeurRoles, a \in HeurActions, h \in HeurHours, d \in HeurDays,
        dev \in HeurDevices, p \in HeurSessions, s \in Flags, f \in Flags}

\* every action of the model, on an otherwise quiet weekday event
HeurActionSweep ==
    {[user_role |-> r, action |-> a, hour |-> 11, is_weekend |-> 0,
      day_of_week |-> 2, device_type |-> "desktop", session_period |-> 45,
      is_sensitive_action |-> s, is_failed_action |-> f] :
        r \in {"nurse", "employee"}, a \in Actions, s \in Flags, f \in Flags}

\* every hour of the day
HeurHourSweep ==
    {[user_role |-> "nurse", action |-> a, hour |-> h, is_weekend |-> d[1],
      day_of_week |-> d[2], device_type |-> "desktop", session_period |-> 45,
      is_sensitive_action |-> 0, is_failed_action |-> 0] :
        a \in {"jit_request", "view_patient_record"}, h \in 0..23, d \in HeurDays}

\* the row.get(...) reads of the scorer on a row of preprocess_data
HeurRowOf(row) ==
    [user_role |-> row.user_role, action |-> row.action, hour |-> row.hour,
     is_weekend |-> row.is_weekend, day_of_week |-> row.day_of_week,
     device_type |-> row.device_type, session_period |-> row.session_period,
     is_sensitive_action |-> row.is_sensitive_action,
     is_failed_action |-> row.is_failed_action]

\* the records of the model as preprocess_data enriches them
HeurEnriched ==
    {HeurRowOf(row) : row \in UNION {Range(preprocess_data(DataFrame(<<rec>>, RawColumns)).rows) :
                                        rec \in Records}}

\* the session periods around every bound of the session branches
HeurSessionSweep ==
    {[user_role |-> r, action |-> "jit_request", hour |-> 11, is_weekend |-> 0,
      day_of_week |-> 2, device_type |-> dev, session_period |-> p,
      is_sensitive_action |-> 0, is_failed_action |-> f] :
        r \in {"nurse", "admin"}, dev \in {"desktop", "new"}, f \in Flags,
        p \in {0 - 1, 0, 4, 5, 29, 30, 119, 120, 121, 240, 241}}

HeurRows ==
    HeurProduct \cup HeurActionSweep \cup HeurHourSweep \cup HeurEnriched
        \cup HeurSessionSweep

HeurJitter == {0 - 500, 0, 499, 500}

HeurInit ==
    /\ label_encoders = NoEncoders
    /\ iso_forest = NoModel
    /\ is_trained = FALSE
    /\ disk = NoBlob
    /\ fitted_classes = NoEncoders
    /\ hash_seed = 0
    /\ pc = "idle"
    /\ \E row \in HeurRows : \E jitter \in HeurJitter :
          call = [op |-> "_generate_realistic_risk_scores", row |-> row,
                  random_factor |-> jitter]
    /\ result = NoResult

HeurScore ==
    /\ pc = "idle"
    /\ call.op = "_generate_realistic_risk_scores"
    /\ result' = Scalar(RowScore(call.row, call.random_factor))
    /\ pc' = "returned"
    /\ UNCHANGED <<label_encoders, iso_forest, is_trained, disk, fitted_classes,
                   hash_seed, call>>

HeurSpec == HeurInit /\ [][HeurScore]_vars

-----------------------------------------------------------------------------
(* The risk classifier on its own: every score of [0, 1] *)

LevelInit ==
    /\ label_encoders = NoEncoders
    /\ iso_forest = NoModel
    /\ is_trained = FALSE
    /\ disk = NoBlob
    /\ fitted_classes = NoEncoders
    /\ hash_seed = 0
    /\ pc = "idle"
    /\ \E risk_score \in 0..Scale :
          call = [op |-> "calculate_risk_level", risk_score |-> risk_score]
    /\ result = NoResult

Classify ==
    /\ pc = "idle"
    /\ call.op = "calculate_risk_level"
    /\ result' = Level(calculate_risk_level(call.risk_score))
    /\ pc' = "returned"
    /\ UNCHANGED <<label_encoders, iso_forest, is_trained, disk, fitted_classes,
                   hash_seed, call>>

LevelSpec == LevelInit /\ [][Classify]_vars

-----------------------------------------------------------------------------
(* Claims *)

HeurReturned == pc = "returned" /\ call.op = "_generate_realistic_risk_scores"

\* C1: for every event and every jitter in [-0.05, +0.05], the heuristic
\* scorer returns a score s with 0.05 <= s <= 0.95.
C1_HeuristicRange ==
    HeurReturned => 500 <= result.value /\ result.value <= 9500

\* C1 witness: a scored row whose sum of increments exceeds 0.95 and whose
\* returned score is the clamp's 0.95.
C1_Witness ==
    /\ HeurReturned
    /\ BaseScore(call.row, call.random_factor) > 9500
    /\ result.value = 9500

LevelReturned == pc = "returned" /\ call.op = "calculate_risk_level"

\* C3: calculate_risk_level returns 'low' exactly for s < 0.40, 'medium'
\* exactly for 0.40 <= s < 0.70 and 'high' exactly for s >= 0.70, for every s
\* of [0, 1]; it never decreases from a score to the next larger one.
C3_LevelPartition ==
    LevelReturned =>
        LET s == call.risk_score IN
        /\ result.level \in {"low", "medium", "high"}
        /\ (result.level = "low") <=> (s < 4000)
        /\ (result.level = "medium") <=> (4000 <= s /\ s < 7000)
        /\ (result.level = "high") <=> (s >= 7000)
        /\ s > 0 => LevelRank(calculate_risk_level(s - 1)) <= LevelRank(result.level)

\* C3 witness: the score 0.70 itself has been classified, as 'high'.
C3_Witness ==
    LevelReturned /\ call.risk_score = 7000 /\ result.level = "high"

PredictCalls == {"predict_risk_scores", "predict_single_record"}

PredictReturned == pc = "returned" /\ call.op \in PredictCalls

PredictOk == PredictReturned /\ result.status = "ok"

\* the input positions (from 0) of the events whose timestamp parses, ascending
ParsableIdx(df) ==
    LET ok(i) == to_datetime(df.rows[i + 1].timestamp).valid
    IN  SelectSeq([k \in 1..Len(df.rows) |-> k - 1], ok)

\* the enriched row of input position i (from 0)
RowAt(df, i) == Enrich(df.rows[i + 1], i)

\* the score the heuristic scorer gives input position i in this process
HeuristicAt(df, i) == RowScore(RowAt(df, i), random_factor(hash_seed, RowAt(df, i)))

RangeOf(anomaly_scores) == SeqMax(anomaly_scores) - SeqMin(anomaly_scores)

\* the call went through the model: decision scores were computed
Scored == PredictOk /\ Len(result.anomaly_scores) > 0

\* C2: on a trained service, every score predict_risk_scores returns lies in
\* [0, 1], on the heuristic-only path and on the blended path, with and
\* without the 1.3 boost; so does the score predict_single_record returns.
C2_ScoresInUnitInterval ==
    PredictOk =>
        /\ \A i \in 1..Len(result.scores) :
              0 <= result.scores[i] /\ result.scores[i] <= Scale
        /\ call.op = "predict_single_record" =>
              0 <= result.value /\ result.value <= Scale

\* C2 witness: a blended batch with one boosted event, whose score is the
\* cap 0.95, and one event that is not boosted.
C2_Witness ==
    /\ Scored
    /\ RangeOf(result.anomaly_scores) >= 100
    /\ \E i, j \in 1..Len(result.scores) :
          /\ result.anomaly_scores[i] < 0
          /\ result.scores[i] = 9500
          /\ result.anomaly_scores[j] >= 0

\* C4: when max - min of the raw scores of a batch is below 0.01 (all equal
\* included), every returned score is exactly the heuristic scorer's score of
\* its event: no blending and no boost, also for flagged outliers.
C4_DegenerateIsHeuristic ==
    (Scored /\ RangeOf(result.anomaly_scores) < 100) =>
        \A k \in 1..Len(result.scores) :
            result.scores[k] = HeuristicAt(call.df, result.idx[k])

\* C4 witness: a batch of two whose raw scores differ by less than 0.01 and
\* hold a flagged outlier, returned with the two heuristic scores.
C4_Witness ==
    /\ Scored
    /\ Len(result.scores) = 2
    /\ RangeOf(result.anomaly_scores) > 0
    /\ RangeOf(result.anomaly_scores) < 100
    /\ \E i \in 1..2 : result.anomaly_scores[i] < 0
    /\ \A k \in 1..2 : result.scores[k] = HeuristicAt(call.df, result.idx[k])

\* C5 as claimed: on the blended path the final score of every flagged
\* outlier is >= its pre-boost blended score and <= 0.95.
C5_BoostMonotonic ==
    (Scored /\ RangeOf(result.anomaly_scores) >= 100) =>
        \A k \in 1..Len(result.scores) :
            result.anomaly_scores[k] < 0 =>
                /\ result.scores[k] <= 9500
                /\ result.scores[k] >=
                      (7 * normalized_score(result.anomaly_scores, k)
                       + 3 * HeuristicAt(call.df, result.idx[k])) \div 10

\* the call's batch has the columns the model was fitted on
ColumnsOfFit ==
    available_features(preprocess_data(call.df)) = iso_forest.features

\* C6: a predict call on an untrained service raises the 'not trained'
\* error and leaves label_encoders, iso_forest and is_trained as they were;
\* and a predict call on a service that has been trained, whose model is
\* fitted, with a batch of the training data's columns, does not raise.
C6_UntrainedPredictFails ==
    /\ [][(pc = "idle" /\ pc' = "returned" /\ call'.op \in PredictCalls /\ ~is_trained) =>
             /\ result'.status = "error"
             /\ result'.error = NotTrainedError
             /\ label_encoders' = label_encoders
             /\ iso_forest' = iso_forest
             /\ is_trained' = is_trained]_vars
    /\ [](PredictReturned /\ is_trained /\ iso_forest.fitted /\ ColumnsOfFit
             => result.status = "ok")

\* C6 witness: the 'not trained' error returned by a service that holds
\* encoders (left by a train_model call that failed), which the call would
\* have changed had it reached the encoding.
C6_Witness ==
    /\ PredictReturned
    /\ result.error = NotTrainedError
    /\ ~is_trained
    /\ "user_role" \in DOMAIN label_encoders
    /\ to_datetime(call.df.rows[1].timestamp).valid

\* the code every value not seen during fit must get: that of 'unknown'
UnknownCode(classes) ==
    IF "unknown" \in Range(classes)
    THEN (CHOOSE i \in 1..Len(classes) : classes[i] = "unknown") - 1
    ELSE Len(classes)

\* the features of the call's batch that have a fitted encoder
EncodedFeatures == DOMAIN fitted_classes \cap CategoricalIn(call.df.columns \cup DerivedColumns)

\* C7: inference never fails on a categorical value not seen during fit, and
\* every such value of a feature gets one and the same code, the code of
\* 'unknown', which the fit alone determines, in every predict call.
C7_UnknownValues ==
    PredictReturned =>
        /\ result.error # "ValueError: y contains previously unseen labels"
        /\ Scored =>
              \A k \in 1..Len(result.encoded) : \A f \in EncodedFeatures :
                  LET v == AsStr(f, RowAt(call.df, result.idx[k])) IN
                  v \notin Range(fitted_classes[f]) =>
                      result.encoded[k][f] = UnknownCode(fitted_classes[f])

\* C7 witness: one batch with two different roles not seen during fit, both
\* encoded with the code of 'unknown'.
C7_Witness ==
    /\ Scored
    /\ Len(result.encoded) = 2
    /\ "user_role" \in EncodedFeatures
    /\ LET r1 == RowAt(call.df, result.idx[1]).user_role
           r2 == RowAt(call.df, result.idx[2]).user_role
       IN  /\ r1 # r2
           /\ r1 \notin Range(fitted_classes["user_role"])
           /\ r2 \notin Range(fitted_classes["user_role"])
           /\ result.encoded[1]["user_role"] = result.encoded[2]["user_role"]

\* C8: every value of the vocabulary a fit built keeps the code the fit gave
\* it, in the vocabulary (before and after 'unknown' is inserted) and in
\* every predict call that follows the fit.
C8_FittedCodesStable ==
    /\ \A f \in DOMAIN fitted_classes :
          /\ f \in DOMAIN label_encoders
          /\ Len(fitted_classes[f]) <= Len(label_encoders[f])
          /\ \A i \in 1..Len(fitted_classes[f]) :
                label_encoders[f][i] = fitted_classes[f][i]
    /\ Scored =>
          \A k \in 1..Len(result.encoded) : \A f \in EncodedFeatures :
              LET v == AsStr(f, RowAt(call.df, result.idx[k])) IN
              \A i \in 1..Len(fitted_classes[f]) :
                  fitted_classes[f][i] = v => result.encoded[k][f] = i - 1

\* C8 witness: a predict call on a vocabulary into which 'unknown' has been
\* inserted, encoding a fitted role whose code is not 0.
C8_Witness ==
    /\ Scored
    /\ "user_role" \in EncodedFeatures
    /\ Len(label_encoders["user_role"]) > Len(fitted_classes["user_role"])
    /\ \E k \in 1..Len(result.encoded) :
          /\ RowAt(call.df, result.idx[k]).user_role \in Range(fitted_classes["user_role"])
          /\ result.encoded[k]["user_role"] > 0

\* C9: a predict_risk_scores call that returns, returns one score per input
\* event whose timestamp parses, in the input order of those events (n events
\* with k unparsable give n - k scores), and an empty list when none parses.
C9_OneScorePerParsableEvent ==
    (PredictOk /\ call.op = "predict_risk_scores") =>
        /\ Len(result.scores) = Len(ParsableIdx(call.df))
        /\ result.idx = ParsableIdx(call.df)
        /\ Len(result.scores) = Len(call.df.rows)
              - Cardinality({i \in 1..Len(call.df.rows) :
                               ~to_datetime(call.df.rows[i].timestamp).valid})

\* C9 witness: a batch of two events whose first timestamp does not parse,
\* returned with the one score of the second event.
C9_Witness ==
    /\ PredictOk
    /\ call.op = "predict_risk_scores"
    /\ Len(call.df.rows) = 2
    /\ ~to_datetime(call.df.rows[1].timestamp).valid
    /\ Len(result.scores) = 1
    /\ result.idx = <<1>>

\* C10 as claimed: an event whose timestamp cannot be parsed is given no
\* risk score by any prediction entry point: a call none of whose events
\* parses returns no score.
C10_NoScoreForUnparsable ==
    (PredictOk /\ Len(ParsableIdx(call.df)) = 0) =>
        /\ result.scores = <<>>
        /\ result.value = 0 - 1

-----------------------------------------------------------------------------
(* The HTTP service: a /train request and a /predict/batch request handled
   by two threads of the server app.run starts, on the one risk_service.
   pc, call and result hold one entry per handler. The handlers share
   self.label_encoders, self.iso_forest and self.is_trained without a lock;
   a step is a stretch of a handler between two accesses of that state.
   The process has just started; each handler serves one request. *)

\* train_model is past the refit of the encoders and not yet past fit
Refitting == {"encoded", "constructed"}

NoRead == [status |-> "none", error |-> "", label_encoders |-> NoEncoders,
           encoders_during |-> "idle", iso_forest |-> NoModel, model_during |-> "idle"]

ConcBatches == {DataFrame(<<rec>>, cols) : rec \in Records, cols \in ColumnSets}

\* the blob an earlier train_model(csv_file) of a fresh service saved
SavedBy(csv_file) ==
    LET df_processed == preprocess_data(read_csv(csv_file).df)
        encoders     == EncodersAfter(NoEncoders, df_processed, TRUE)
    IN  Blob(encoders, FittedModel(csv_file, available_features(df_processed)), TRUE, encoders)

ConcBlobs ==
    {NoBlob, SavedBy("hospital_behavior_dataset_1.csv"),
     SavedBy("hospital_behavior_dataset_2.csv")}

ConcInit ==
    /\ disk \in ConcBlobs
    /\ label_encoders = Constructed(disk).label_encoders
    /\ iso_forest = Constructed(disk).iso_forest
    /\ is_trained = Constructed(disk).is_trained
    /\ fitted_classes = Constructed(disk).fitted_classes
    /\ hash_seed = 0
    /\ pc = [train |-> "idle", predict |-> "idle"]
    /\ call = [train |-> [csv_file |-> "None"], predict |-> [df |-> DataFrame(<<>>, RawColumns)]]
    /\ result = [train |-> "none", predict |-> NoRead]

\* /train: lines 160-161, pd.read_csv
TrainRead ==
    /\ pc.train = "idle"
    /\ \E csv_file \in CsvFiles :
          /\ call' = [call EXCEPT !.train = [csv_file |-> csv_file]]
          /\ IF read_csv(csv_file).readable
             THEN /\ pc' = [pc EXCEPT !.train = "read"]
                  /\ result' = [result EXCEPT !.train = "none"]
             ELSE /\ pc' = [pc EXCEPT !.train = "done"]
                  /\ result' = [result EXCEPT !.train = "FileNotFoundError"]
    /\ UNCHANGED <<label_encoders, iso_forest, is_trained, disk, fitted_classes, hash_seed>>

\* lines 164-168: preprocess_data and encode_features(fit_encoders=True)
TrainEncode ==
    /\ pc.train = "read"
    /\ LET df_processed == preprocess_data(read_csv(call.train.csv_file).df)
           encoders     == EncodersAfter(label_encoders, df_processed, TRUE)
           refit        == CategoricalIn(df_processed.columns)
       IN  /\ label_encoders' = encoders
           /\ fitted_classes' = [f \in DOMAIN encoders |->
                                   IF f \in refit THEN encoders[f] ELSE fitted_classes[f]]
    /\ pc' = [pc EXCEPT !.train = "encoded"]
    /\ UNCHANGED <<iso_forest, is_trained, disk, hash_seed, call, result>>

\* lines 171-180: self.iso_forest = IsolationForest(...)
TrainConstruct ==
    /\ pc.train = "encoded"
    /\ iso_forest' = NewModel
    /\ pc' = [pc EXCEPT !.train = "constructed"]
    /\ UNCHANGED <<label_encoders, is_trained, disk, fitted_classes, hash_seed, call, result>>

\* lines 182-183: self.iso_forest.fit(X); self.is_trained = True
TrainFit ==
    /\ pc.train = "constructed"
    /\ LET df_processed == preprocess_data(read_csv(call.train.csv_file).df) IN
       IF Len(df_processed.rows) = 0
       THEN /\ pc' = [pc EXCEPT !.train = "done"]
            /\ result' = [result EXCEPT !.train = "ValueError: Found array with 0 sample(s)"]
            /\ UNCHANGED <<iso_forest, is_trained>>
       ELSE /\ iso_forest' = FittedModel(call.train.csv_file, available_features(df_processed))
            /\ is_trained' = TRUE
            /\ pc' = [pc EXCEPT !.train = "fitted"]
            /\ UNCHANGED result
    /\ UNCHANGED <<label_encoders, disk, fitted_classes, hash_seed, call>>

\* line 188: save_model
TrainSave ==
    /\ pc.train = "fitted"
    /\ \E save_ok \in BOOLEAN :
          IF save_ok
          THEN /\ disk' = Blob(label_encoders, iso_forest, is_trained, fitted_classes)
               /\ result' = [result EXCEPT !.train = "ok"]
          ELSE /\ disk' = disk
               /\ result' = [result EXCEPT !.train = "OSError"]
    /\ pc' = [pc EXCEPT !.train = "done"]
    /\ UNCHANGED <<label_encoders, iso_forest, is_trained, fitted_classes, hash_seed, call>>

\* the /train handler answers
TrainReturn ==
    /\ pc.train = "done"
    /\ pc' = [pc EXCEPT !.train = "answered"]
    /\ UNCHANGED <<label_encoders, iso_forest, is_trained, disk, fitted_classes,
                   hash_seed, call, result>>

\* /predict/batch: line 197, the is_trained guard of predict_risk_scores
PredictGuard ==
    /\ pc.predict = "idle"
    /\ \E df \in ConcBatches :
          /\ call' = [call EXCEPT !.predict = [df |-> df]]
          /\ IF NotTrained(is_trained)
             THEN /\ pc' = [pc EXCEPT !.predict = "done"]
                  /\ result' = [result EXCEPT !.predict =
                                   [NoRead EXCEPT !.status = "error", !.error = NotTrainedError]]
             ELSE /\ pc' = [pc EXCEPT !.predict = "guarded"]
                  /\ result' = [result EXCEPT !.predict = NoRead]
    /\ UNCHANGED <<label_encoders, iso_forest, is_trained, disk, fitted_classes, hash_seed>>

\* lines 201-207: preprocess_data, the empty-frame return, and
\* encode_features(fit_encoders=False), which reads self.label_encoders and
\* appends 'unknown' to them
PredictEncode ==
    /\ pc.predict = "guarded"
    /\ LET df_processed == preprocess_data(call.predict.df)
           df_encoded   == encode_features(label_encoders, df_processed, FALSE)
       IN
       IF Len(df_processed.rows) = 0
       THEN /\ pc' = [pc EXCEPT !.predict = "done"]
            /\ result' = [result EXCEPT !.predict = [NoRead EXCEPT !.status = "ok"]]
            /\ UNCHANGED label_encoders
       ELSE /\ label_encoders' = EncodersAfter(label_encoders, df_processed, FALSE)
            /\ IF \E i \in 1..Len(df_encoded) : \E f \in DOMAIN df_encoded[i] :
                     df_encoded[i][f] = TransformError
               THEN /\ pc' = [pc EXCEPT !.predict = "done"]
                    /\ result' = [result EXCEPT !.predict =
                                     [NoRead EXCEPT !.status = "error",
                                         !.error = "ValueError: y contains previously unseen labels",
                                         !.label_encoders = label_encoders,
                                         !.encoders_during = pc.train]]
               ELSE /\ pc' = [pc EXCEPT !.predict = "encoded"]
                    /\ result' = [result EXCEPT !.predict =
                                     [NoRead EXCEPT !.label_encoders = label_encoders,
                                                    !.encoders_during = pc.train]]
    /\ UNCHANGED <<iso_forest, is_trained, disk, fitted_classes, hash_seed, call>>

\* lines 210-216: prepare_features and self.iso_forest.decision_function(X),
\* which reads self.iso_forest; the arithmetic of lines 219-242 that follows
\* touches no state of the service
PredictScore ==
    /\ pc.predict = "encoded"
    /\ LET df_processed == preprocess_data(call.predict.df)
           read == [result.predict EXCEPT !.iso_forest = iso_forest, !.model_during = pc.train]
       IN  result' = [result EXCEPT !.predict =
              IF ~iso_forest.fitted
              THEN [read EXCEPT !.status = "error", !.error = "NotFittedError"]
              ELSE IF available_features(df_processed) # iso_forest.features
              THEN [read EXCEPT !.status = "error",
                                !.error = "ValueError: feature names do not match the fit"]
              ELSE [read EXCEPT !.status = "ok"]]
    /\ pc' = [pc EXCEPT !.predict = "done"]
    /\ UNCHANGED <<label_encoders, iso_forest, is_trained, disk, fitted_classes,
                   hash_seed, call>>

\* the /predict/batch handler answers
PredictReturn ==
    /\ pc.predict = "done"
    /\ pc' = [pc EXCEPT !.predict = "answered"]
    /\ UNCHANGED <<label_encoders, iso_forest, is_trained, disk, fitted_classes,
                   hash_seed, call, result>>

ConcNext ==
    \/ TrainRead \/ TrainEncode \/ TrainConstruct \/ TrainFit \/ TrainSave \/ TrainReturn
    \/ PredictGuard \/ PredictEncode \/ PredictScore \/ PredictReturn

ConcSpec == ConcInit /\ [][ConcNext]_vars

-----------------------------------------------------------------------------
(* The feature transform on its own: one-row frames of every action *)

PreTimestamps ==
    {"2025-09-22 14:30:00", "2025-09-21 02:15:00", "2025-09-24 11:00:00",
     "2025-09-27 20:45:00", "not-a-date"}

PreSessions == {0, 20, 30, 119, 120, 500}

PreRecords ==
    {Rec("alice", "nurse", "10.0.0.1", "desktop", ts, a, p) :
        ts \in PreTimestamps, a \in Actions, p \in PreSessions}

PreInit ==
    /\ label_encoders = NoEncoders
    /\ iso_forest = NoModel
    /\ is_trained = FALSE
    /\ disk = NoBlob
    /\ fitted_classes = NoEncoders
    /\ hash_seed = 0
    /\ pc = "idle"
    /\ \E rec \in PreRecords :
          call = [op |-> "preprocess_data", df |-> DataFrame(<<rec>>, RawColumns)]
    /\ result = NoResult

Preprocess ==
    /\ pc = "idle"
    /\ call.op = "preprocess_data"
    /\ result' = [status |-> "ok", rows |-> preprocess_data(call.df).rows]
    /\ pc' = "returned"
    /\ UNCHANGED <<label_encoders, iso_forest, is_trained, disk, fitted_classes,
                   hash_seed, call>>

PreSpec == PreInit /\ [][Preprocess]_vars

\* a preprocess_data call has returned a row
PreRow == pc = "returned" /\ call.op = "preprocess_data" /\ Len(result.rows) = 1

\* the lower-cased action of the call contains the string k
ActionHas(k) == Contains(LowerChars(Chars(call.df.rows[1].action)), Chars(k))

\* C11 as claimed: is_sensitive_action is 1 exactly when the lower-cased
\* action contains one of admin, delete, export, audit, config, classified,
\* financial.
C11_SensitiveKeywords ==
    PreRow =>
        ((result.rows[1].is_sensitive_action = 1) <=>
            \E k \in {"admin", "delete", "export", "audit", "config", "classified",
                      "financial"} : ActionHas(k))

\* C11 amended: is_sensitive_action is 1 exactly when the lower-cased action
\* contains one of admin_access, audit_log_access, financial_report_access,
\* classified_data_access, and 0 otherwise.
C11_SensitiveActionNames ==
    PreRow =>
        /\ result.rows[1].is_sensitive_action \in {0, 1}
        /\ (result.rows[1].is_sensitive_action = 1) <=>
              \/ ActionHas("admin_access")
              \/ ActionHas("audit_log_access")
              \/ ActionHas("financial_report_access")
              \/ ActionHas("classified_data_access")

\* C11 witness: the upper-case action ADMIN_ACCESS has been preprocessed and
\* is flagged sensitive.
C11_Witness ==
    /\ PreRow
    /\ call.df.rows[1].action = "ADMIN_ACCESS"
    /\ result.rows[1].is_sensitive_action = 1

\* the action increment of the claimed priority order, in which
\* financial/payment, patient/medical/record and update/modify/edit all come
\* before login/authentication
ClaimedActionIncrement ==
    [action \in Actions |->
    LET in(k) == Contains(LowerChars(Chars(action)), Chars(k)) IN
    IF in("delete") \/ in("remove") THEN 2500
    ELSE IF in("admin") \/ in("config") \/ in("settings") THEN 2000
    ELSE IF in("export") \/ in("download") THEN 1500
    ELSE IF in("audit") \/ in("log") THEN 1200
    ELSE IF in("financial") \/ in("payment") THEN 1800
    ELSE IF in("patient") \/ in("medical") \/ in("record") THEN 1000
    ELSE IF in("update") \/ in("modify") \/ in("edit") THEN 1200
    ELSE IF in("login") \/ in("authentication") THEN 800
    ELSE IF in("view") \/ in("read") \/ in("navigate") THEN 300
    ELSE 0]

\* the action increment of the amended priority order, in which
\* login/authentication comes right after audit/log
AmendedActionIncrement ==
    [action \in Actions |->
    LET in(k) == Contains(LowerChars(Chars(action)), Chars(k)) IN
    IF in("delete") \/ in("remove") THEN 2500
    ELSE IF in("admin") \/ in("config") \/ in("settings") THEN 2000
    ELSE IF in("export") \/ in("download") THEN 1500
    ELSE IF in("audit") \/ in("log") THEN 1200
    ELSE IF in("login") \/ in("authentication") THEN 800
    ELSE IF in("financial") \/ in("payment") THEN 1800
    ELSE IF in("patient") \/ in("medical") \/ in("record") THEN 1000
    ELSE IF in("update") \/ in("modify") \/ in("edit") THEN 1200
    ELSE IF in("view") \/ in("read") \/ in("navigate") THEN 300
    ELSE 0]

\* the score of the returned call when its action increment is inc: every
\* other increment as scored, then the clamp to [0.05, 0.95]
ScoreWithAction(inc) ==
    Max(500, Min(9500,
        2500 + RoleIncrement(call.row.user_role) + inc + TimeIncrement(call.row.hour)
             + WeekendIncrement(call.row) + DeviceIncrement(call.row.device_type)
             + SessionIncrement(call.row.session_period)
             + SensitiveIncrement(call.row) + FailedIncrement(call.row)
             + call.random_factor))

\* C12 as claimed: the score holds exactly one action increment, that of the
\* first matching category in the order delete, admin, export, audit,
\* financial, patient, update, login, view, and none when no category matches.
C12_ActionPriority ==
    HeurReturned => result.value = ScoreWithAction(ClaimedActionIncrement[call.row.action])

\* C12 amended: the score holds exactly one action increment, that of the
\* first matching category in the order delete, admin, export, audit, login,
\* financial, patient, update, view, and none when no category matches.
C12_ActionPriorityAmended ==
    HeurReturned => result.value = ScoreWithAction(AmendedActionIncrement[call.row.action])

\* C12 witness: an unclamped score of an action that matches both
\* login/authentication and financial/payment carries +0.08.
C12_Witness ==
    /\ HeurReturned
    /\ call.row.action = "financial_authentication"
    /\ call.row.user_role = "employee"
    /\ call.row.is_sensitive_action = 0 /\ call.row.is_failed_action = 0
    /\ call.random_factor = 0
    /\ result.value = 2500 + 800 - 500

\* the admin event of the example, as preprocess_data enriches it
AdminNightRow == HeurRowOf(preprocess_data(DataFrame(<<AdminNight>>, RawColumns)).rows[1])

\* C13: the enriched event {admin, classified_data_access, hour 2, weekend,
\* device new, session 500} scores 0.95 whatever the jitter, and its level
\* is high.
C13_AdminNightIsHigh ==
    (HeurReturned /\ call.row = AdminNightRow) =>
        /\ result.value = 9500
        /\ calculate_risk_level(result.value) = "high"

\* C13 witness: that event has been scored with the lowest jitter.
C13_Witness ==
    /\ HeurReturned
    /\ call.row = AdminNightRow
    /\ call.row.user_role = "admin" /\ call.row.action = "classified_data_access"
    /\ call.row.hour = 2 /\ call.row.is_weekend = 1
    /\ call.row.device_type = "new" /\ call.row.session_period = 500
    /\ call.row.is_sensitive_action = 1
    /\ call.random_factor = 0 - 500
    /\ result.value = 9500

\* the nurse event of the example, as preprocess_data enriches it
NurseViewRow == HeurRowOf(preprocess_data(DataFrame(<<NurseView>>, RawColumns)).rows[1])

\* C14 as claimed: the event {nurse, view_patient_record, hour 11, weekday,
\* desktop, session 45} scores 0.25 + 0.05 + 0.03 - 0.05 + jitter and its
\* level is low for every jitter.
C14_NurseViewIsLow ==
    (HeurReturned /\ call.row = NurseViewRow) =>
        /\ result.value = 2500 + 500 + 300 - 500 + call.random_factor
        /\ calculate_risk_level(result.value) = "low"

\* C14 amended: that event scores 0.25 + 0.05 + 0.10 - 0.05 + jitter, the
\* action increment being that of patient/medical/record, and its level is
\* low when the jitter is below +0.05 and medium when the jitter is +0.05.
C14_NurseViewScore ==
    (HeurReturned /\ call.row = NurseViewRow) =>
        /\ result.value = 2500 + 500 + 1000 - 500 + call.random_factor
        /\ call.random_factor < 500 => calculate_risk_level(result.value) = "low"
        /\ call.random_factor = 500 => calculate_risk_level(result.value) = "medium"

\* C14 witness: that event has been scored with the highest jitter and has
\* reached 0.40.
C14_Witness ==
    /\ HeurReturned
    /\ call.row = NurseViewRow
    /\ call.row.user_role = "nurse" /\ call.row.action = "view_patient_record"
    /\ call.row.hour = 11 /\ call.row.is_weekend = 0
    /\ call.row.device_type = "desktop" /\ call.row.session_period = 45
    /\ call.random_factor = 500
    /\ result.value = 4000

\* the score the heuristic scorer gives input position i in a process whose
\* string hashes are seeded with seed
HeuristicUnder(seed, df, i) == RowScore(RowAt(df, i), random_factor(seed, RowAt(df, i)))

\* C15 as claimed: the heuristic score of an event is a function of its
\* username, timestamp, row index and other fields only; no other state
\* influences it, so every process gives the event the score this one gave.
C15_JitterFromEventOnly ==
    (Scored /\ RangeOf(result.anomaly_scores) < 100) =>
        \A k \in 1..Len(result.scores) : \A seed \in Seeds :
            result.scores[k] = HeuristicUnder(seed, call.df, result.idx[k])

\* a train_model call has returned normally
TrainReturned == pc = "returned" /\ call.op = "train_model" /\ result.status = "ok"

\* the dataset D of the train_model call, as read and as preprocessed
TrainedOn == read_csv(call.csv_file).df
TrainedOnKept == preprocess_data(TrainedOn)

\* the distinct values of a feature in a sequence of rows
DistinctValues(feature, rows) == {AsStr(feature, rows[i]) : i \in 1..Len(rows)}

\* C16 as claimed: after train_model(D) the vocabulary of every feature
\* present in D is exactly the set of distinct values of D, and is_trained
\* is true.
C16_RetrainReplaces ==
    TrainReturned =>
        /\ is_trained
        /\ \A f \in CategoricalIn(TrainedOn.columns) :
              Range(label_encoders[f]) = DistinctValues(f, TrainedOn.rows)

\* the vocabularies and the model are those a fresh service gets from D
FreshlyTrained ==
    /\ is_trained
    /\ iso_forest.fitted /\ iso_forest.fit_on = call.csv_file
    /\ \A f \in CategoricalIn(TrainedOnKept.columns) :
          /\ f \in DOMAIN label_encoders
          /\ Range(label_encoders[f]) = DistinctValues(f, TrainedOnKept.rows)
          /\ Len(label_encoders[f]) = Cardinality(Range(label_encoders[f]))
          /\ label_encoders[f] = fit_classes(f, TrainedOnKept.rows)

\* a train_model(D) step that returns normally from the state the last saved
\* train_model(D) left
RetrainStep ==
    /\ pc = "idle" /\ pc' = "returned"
    /\ call'.op = "train_model" /\ result'.status = "ok"
    /\ disk.exists /\ disk.iso_forest.fit_on = call'.csv_file
    /\ label_encoders = disk.label_encoders
    /\ iso_forest = disk.iso_forest
    /\ is_trained = disk.is_trained

\* C16 amended: after a train_model(D) that returns, whatever train and
\* predict calls came before, the vocabulary of every feature present in D is
\* exactly the set of distinct values of the rows of D that preprocess_data
\* keeps, the model is the one fitted on D and is_trained is true, as on a
\* fresh service; training on D again leaves that state as it is.
C16_RetrainReplacesKept ==
    /\ [](TrainReturned => FreshlyTrained)
    /\ [][RetrainStep =>
            /\ label_encoders' = label_encoders
            /\ iso_forest' = iso_forest
            /\ is_trained' = is_trained
            /\ disk' = disk]_vars

\* C16 witness: train_model on the dataset without device_type has returned
\* on a service that an earlier training left a device_type encoder, and the
\* role vocabulary is that of the new dataset alone.
C16_Witness ==
    /\ TrainReturned
    /\ call.csv_file = "hospital_behavior_dataset_2.csv"
    /\ "device_type" \in DOMAIN label_encoders
    /\ label_encoders["user_role"] = <<"contractor", "nurse">>
    /\ is_trained

\* the vocabularies train_model fits on a dataset
VocabularyOf(csv_file) ==
    LET df_processed == preprocess_data(read_csv(csv_file).df)
    IN  [f \in CategoricalIn(df_processed.columns) |-> fit_classes(f, df_processed.rows)]

\* the encoders are those fitted with the model, but for an appended 'unknown'
SameFit(encoders, model) ==
    LET vocabulary == VocabularyOf(model.fit_on) IN
    \A f \in DOMAIN vocabulary :
        /\ f \in DOMAIN encoders
        /\ \/ encoders[f] = vocabulary[f]
           \/ encoders[f] = Append(vocabulary[f], "unknown")

\* C17 as claimed: a prediction read neither the encoders nor the model while
\* train_model was between the refit of the encoders and the fit of the new
\* model, and the vocabulary and the model it used are of the same fit.
C17_NoPredictDuringFit ==
    (pc.predict = "done" /\ result.predict.status = "ok" /\ result.predict.iso_forest.fitted) =>
        /\ result.predict.encoders_during \notin Refitting
        /\ result.predict.model_during \notin Refitting
        /\ SameFit(result.predict.label_encoders, result.predict.iso_forest)

\* predict_risk_scores has returned the heuristic scores alone
HeuristicOnly == Scored /\ RangeOf(result.anomaly_scores) < 100

\* the score the heuristic scorer gives an event that is alone in its batch
AloneScore(df, i) ==
    HeuristicAt(DataFrame(<<[c \in RawColumns |-> df.rows[i + 1][c]]>>, df.columns), 0)

\* C18 as claimed: on the heuristic-only path an event gets the score it
\* gets alone, whatever other events are in the batch and whatever its
\* position.
C18_ScoreOfEventAlone ==
    HeuristicOnly =>
        \A k \in 1..Len(result.scores) :
            result.scores[k] = AloneScore(call.df, result.idx[k])

\* the batches that hold the event of position i of df at that position
SamePlace(df, i) ==
    {other \in Batches :
        /\ other.columns = df.columns
        /\ Len(other.rows) > i
        /\ other.rows[i + 1] = df.rows[i + 1]}

\* C18 amended: on the heuristic-only path the score of an event depends
\* only on the event's own fields and its row index: it is the score the
\* event gets at that row index in any other batch.
C18_ScoreOfEventAndIndex ==
    HeuristicOnly =>
        \A k \in 1..Len(result.scores) :
            \A other \in SamePlace(call.df, result.idx[k]) :
                result.scores[k] = HeuristicAt(other, result.idx[k])

\* C18 witness: a heuristic-only batch holds the same event twice and the two
\* positions got different scores.
C18_Witness ==
    /\ HeuristicOnly
    /\ Len(result.scores) = 2
    /\ call.df.rows[1] = call.df.rows[2]
    /\ result.scores[1] # result.scores[2]
    /\ Cardinality(SamePlace(call.df, 1)) > 1

\* C19 as claimed: a predict call on a trained service returns one score per
\* parsable event, also when the batch has a categorical feature without a
\* fitted encoder; the only error a predict call raises is the 'not trained'
\* error.
C19_OnlyNotTrainedRaises ==
    PredictReturned =>
        /\ result.status = "error" => result.error = NotTrainedError
        /\ result.status = "ok" /\ call.op = "predict_risk_scores" =>
              Len(result.scores) = Len(ParsableIdx(call.df))

\* the time-of-day increment as claimed: none at hour 18, and the reduction
\* for the hours 9..17, which are the hours with is_business_hours = 1
ClaimedTimeIncrement(hour) ==
    IF 0 <= hour /\ hour <= 5 THEN 1500
    ELSE IF 6 <= hour /\ hour <= 8 THEN 500
    ELSE IF 9 <= hour /\ hour <= 17 /\ is_business_hours_of(hour) = 1 THEN 0 - 500
    ELSE IF 19 <= hour /\ hour <= 23 THEN 1000
    ELSE 0

\* the score of the returned call when its time-of-day increment is inc:
\* every other increment as scored, then the clamp to [0.05, 0.95]
ScoreWithTime(inc) ==
    Max(500, Min(9500,
        2500 + RoleIncrement(call.row.user_role) + ActionIncrement(call.row.action) + inc
             + WeekendIncrement(call.row) + DeviceIncrement(call.row.device_type)
             + SessionIncrement(call.row.session_period)
             + SensitiveIncrement(call.row) + FailedIncrement(call.row)
             + call.random_factor))

\* C20 as claimed: for every hour 0..23 the score holds the time-of-day
\* increment +0.15 for 0..5, +0.05 for 6..8, -0.05 for 9..17, +0.10 for
\* 19..23 and none for 18, the reduction applying exactly to the hours with
\* is_business_hours = 1.
C20_TimeOfDayIncrement ==
    HeurReturned => result.value = ScoreWithTime(ClaimedTimeIncrement(call.row.hour))

\* the score of the returned call when its session increment is inc: every
\* other increment as scored, then the clamp to [0.05, 0.95]
ScoreWithSession(inc) ==
    Max(500, Min(9500,
        2500 + RoleIncrement(call.row.user_role) + ActionIncrement(call.row.action)
             + TimeIncrement(call.row.hour) + WeekendIncrement(call.row)
             + DeviceIncrement(call.row.device_type) + inc
             + SensitiveIncrement(call.row) + FailedIncrement(call.row)
             + call.random_factor))

\* C21 as claimed: the session increment is +0.10 for p > 240, +0.08 for
\* p < 5, +0.05 for 120 <= p <= 240 and 0 for 5 <= p < 120; p = 120, which
\* is bucketed 'long', gets +0.05.
C21_SessionIncrement ==
    HeurReturned =>
        LET p == call.row.session_period IN
        /\ p > 240 => result.value = ScoreWithSession(1000)
        /\ p < 5 => result.value = ScoreWithSession(800)
        /\ 120 <= p /\ p <= 240 => result.value = ScoreWithSession(500)
        /\ 5 <= p /\ p < 120 => result.value = ScoreWithSession(0)

\* C21 amended: the session increment is +0.10 for p > 240, +0.08 for p < 5,
\* +0.05 for 120 < p <= 240 and 0 for 5 <= p <= 120; p = 120, which is
\* bucketed 'long', gets no increment.
C21_SessionIncrementAbove120 ==
    HeurReturned =>
        LET p == call.row.session_period IN
        /\ p > 240 => result.value = ScoreWithSession(1000)
        /\ p < 5 => result.value = ScoreWithSession(800)
        /\ 120 < p /\ p <= 240 => result.value = ScoreWithSession(500)
        /\ 5 <= p /\ p <= 120 => result.value = ScoreWithSession(0)
        /\ p = 120 => categorize_session_length(p) = "long"

\* C21 witness: an unclamped event with session_period 120 has been scored
\* without a session increment.
C21_Witness ==
    /\ HeurReturned
    /\ call.row.session_period = 120
    /\ call.row.user_role = "nurse" /\ call.row.device_type = "desktop"
    /\ call.row.is_failed_action = 0 /\ call.random_factor = 0
    /\ result.value = 2500 + 500 - 500

\* C22 as claimed: train_model replaces the trained state atomically, so in
\* every state the service is either as constructed without a model, or its
\* model is fitted and the vocabularies are those the model was fitted with,
\* plus at most 'unknown'.
C22_FitIsAtomic ==
    \/ iso_forest = NoModel /\ label_encoders = NoEncoders /\ ~is_trained
    \/ iso_forest.fitted /\ is_trained /\ SameFit(label_encoders, iso_forest)

\* a predict call is made in this step
PredictStep == pc = "idle" /\ pc' = "returned" /\ call'.op \in PredictCalls

\* the features the predict call of this step encodes with a fitted encoder:
\* none when the service is not trained or no event parses
EncodedByStep ==
    IF is_trained /\ Len(ParsableIdx(call'.df)) > 0
    THEN DOMAIN label_encoders \cap CategoricalIn(call'.df.columns \cup DerivedColumns)
    ELSE {}

\* every value the call's batch holds for feature f is in the vocabulary
AllKnown(f) ==
    \A k \in 1..Len(ParsableIdx(call'.df)) :
        AsStr(f, RowAt(call'.df, ParsableIdx(call'.df)[k])) \in Range(label_encoders[f])

\* C23 as claimed: a predict call in which every value of a feature is known
\* leaves that feature's vocabulary as it was.
C23_UnknownOnlyWhenNeeded ==
    [][PredictStep =>
          \A f \in EncodedByStep : AllKnown(f) => label_encoders'[f] = label_encoders[f]]_vars

\* C23 amended: a predict call appends 'unknown' to the vocabulary of every
\* feature it encodes that does not hold it yet, whether or not the batch has
\* an unseen value of that feature, and changes no vocabulary otherwise.
C23_UnknownOnFirstEncoding ==
    [][PredictStep =>
          /\ DOMAIN label_encoders' = DOMAIN label_encoders
          /\ \A f \in DOMAIN label_encoders :
                label_encoders'[f] =
                    IF f \in EncodedByStep /\ "unknown" \notin Range(label_encoders[f])
                    THEN Append(label_encoders[f], "unknown")
                    ELSE label_encoders[f]]_vars

\* C23 witness: a predict call whose roles were all seen during fit has
\* returned scores, and the role vocabulary is the fitted one with 'unknown'
\* appended.
C23_Witness ==
    /\ Scored
    /\ "user_role" \in EncodedFeatures
    /\ \A k \in 1..Len(result.idx) :
          RowAt(call.df, result.idx[k]).user_role \in Range(fitted_classes["user_role"])
    /\ "unknown" \notin Range(fitted_classes["user_role"])
    /\ label_encoders["user_role"] = Append(fitted_classes["user_role"], "unknown")

\* how often a value occurs in a vocabulary
Occurrences(classes, v) == Cardinality({i \in 1..Len(classes) : classes[i] = v})

\* C24: after a fit and any sequence of predict calls, every vocabulary is
\* the fitted one or the fitted one plus one entry 'unknown'; 'unknown'
\* occurs at most once; a vocabulary fitted with 'unknown' never grows.
C24_AtMostOneUnknown ==
    \A f \in DOMAIN fitted_classes :
        /\ f \in DOMAIN label_encoders
        /\ Len(label_encoders[f]) \in {Len(fitted_classes[f]), Len(fitted_classes[f]) + 1}
        /\ \A i \in 1..Len(fitted_classes[f]) : label_encoders[f][i] = fitted_classes[f][i]
        /\ Len(label_encoders[f]) = Len(fitted_classes[f]) + 1 =>
              label_encoders[f][Len(label_encoders[f])] = "unknown"
        /\ Occurrences(label_encoders[f], "unknown") <= 1
        /\ "unknown" \in Range(fitted_classes[f]) => label_encoders[f] = fitted_classes[f]

\* C24 witness: a predict call has returned scores on a service whose
\* device_type vocabulary was fitted with 'unknown' and has not grown, while
\* its role vocabulary has grown by 'unknown'.
C24_Witness ==
    /\ Scored
    /\ {"device_type", "user_role"} \subseteq EncodedFeatures
    /\ "unknown" \in Range(fitted_classes["device_type"])
    /\ label_encoders["device_type"] = fitted_classes["device_type"]
    /\ Len(label_encoders["user_role"]) = Len(fitted_classes["user_role"]) + 1
    /\ Occurrences(label_encoders["user_role"], "unknown") = 1

\* the returned scores are not all the same
Informative == \E i, j \in 1..Len(result.scores) : result.scores[i] # result.scores[j]

\* C25 as claimed: a batch of two or more parsable events never gets the
\* same score for all its events, on the heuristic-only path or the blended
\* path.
C25_NeverConstant ==
    (Scored /\ Len(result.scores) >= 2) => Informative

\* C25 amended: on the blended path a batch of two or more parsable events
\* never gets the same score for all its events (the heuristic-only path can
\* give all events one score).
C25_BlendedNeverConstant ==
    (Scored /\ Len(result.scores) >= 2 /\ RangeOf(result.anomaly_scores) >= 100) =>
        Informative

\* C25 witness: two events with the same heuristic score have been scored
\* on the blended path.
C25_Witness ==
    /\ Scored
    /\ Len(result.scores) = 2
    /\ RangeOf(result.anomaly_scores) >= 100
    /\ HeuristicAt(call.df, result.idx[1]) = HeuristicAt(call.df, result.idx[2])
    /\ result.scores[1] # result.scores[2]

\* predict_risk_scores has returned blended scores
Blended == Scored /\ RangeOf(result.anomaly_scores) >= 100

\* 0.7 * normalized + 0.3 * heuristic for the k-th score of the call, and
\* the same after the boost min(0.95, 1.3 * score)
BlendOf(normalized, k) ==
    (7 * normalized + 3 * HeuristicAt(call.df, result.idx[k])) \div 10
BoostOf(score) == IF (13 * score) \div 10 < 9500 THEN (13 * score) \div 10 ELSE 9500

\* C26: in a non-degenerate batch the event with the lowest raw score has
\* normalized score 1, a final score >= 0.70 and level high; the event with
\* the highest raw score has normalized score 0, a final score < 0.40 and
\* level low, also when it is flagged and boosted.
C26_ExtremesOfBlend ==
    Blended =>
        \A k \in 1..Len(result.scores) :
            /\ result.anomaly_scores[k] = SeqMin(result.anomaly_scores) =>
                  /\ result.scores[k] \in {BlendOf(Scale, k), BoostOf(BlendOf(Scale, k))}
                  /\ result.scores[k] >= 7000
                  /\ calculate_risk_level(result.scores[k]) = "high"
            /\ result.anomaly_scores[k] = SeqMax(result.anomaly_scores) =>
                  /\ result.scores[k] =
                        IF result.anomaly_scores[k] < 0
                        THEN BoostOf(BlendOf(0, k)) ELSE BlendOf(0, k)
                  /\ result.scores[k] < 4000
                  /\ calculate_risk_level(result.scores[k]) = "low"

\* C26 witness: the event with the highest raw score of a blended batch is
\* flagged as an outlier, has a heuristic score of 0.95 and stays low.
C26_Witness ==
    /\ Blended
    /\ \E k \in 1..Len(result.scores) :
          /\ result.anomaly_scores[k] = SeqMax(result.anomaly_scores)
          /\ result.anomaly_scores[k] < 0
          /\ HeuristicAt(call.df, result.idx[k]) = 9500
          /\ result.scores[k] = 3705

\* predict_single_record has returned for a record whose timestamp parses
SingleScored ==
    /\ PredictOk
    /\ call.op = "predict_single_record"
    /\ Len(ParsableIdx(call.df)) = 1

\* C27: predict_single_record on a trained service and a record with a
\* parsable timestamp takes the heuristic-only path: the raw score range of
\* its one-event batch is 0, and its result is the heuristic score of the
\* record, in [0.05, 0.95], whatever the model's output.
C27_SingleIsHeuristic ==
    SingleScored =>
        /\ Len(result.anomaly_scores) = 1
        /\ RangeOf(result.anomaly_scores) = 0
        /\ result.value = HeuristicAt(call.df, 0)
        /\ 500 <= result.value /\ result.value <= 9500

\* C27 witness: the model flags the single record as an outlier and the
\* result is its heuristic score, unboosted.
C27_Witness ==
    /\ SingleScored
    /\ result.anomaly_scores[1] < 0
    /\ result.value = HeuristicAt(call.df, 0)
    /\ result.value < 9500

\* /predict/batch has answered with predictions
BatchAnswered == pc = "returned" /\ call.op = "predict_batch" /\ result.status = "ok"

\* C28 as claimed: the score and level reported at index i of the
\* /predict/batch response are those computed for input record i; no record
\* is reported with the score computed for another record.
C28_ReportedForOwnRecord ==
    BatchAnswered =>
        \A n \in 1..Len(result.predictions) :
            LET own == {k \in 1..Len(result.idx) : result.idx[k] = n - 1} IN
            IF own # {}
            THEN \A k \in own :
                    /\ result.predictions[n].risk_score \in round3(result.risk_scores[k])
                    /\ result.predictions[n].risk_level =
                          calculate_risk_level(result.risk_scores[k])
            \* no score was computed for the record: its entry is none of them
            ELSE n > Len(result.risk_scores)

\* C29 as claimed: in every state reached by construction, load_model,
\* train_model (succeeding or failing), save_model and predict calls,
\* is_trained implies that iso_forest is a fitted model.
C29_TrainedHasFittedModel == is_trained => (iso_forest # NoModel /\ iso_forest.fitted)

-----------------------------------------------------------------------------
(* Two /predict handlers of the one risk_service in two threads of app.run,
   at the granularity of the accesses of encoder.classes_ in the inference
   branch of encode_features. The service has loaded a trained model; each
   handler serves one request of one record and stops when its frame is
   encoded (what follows reads the encoders no more). *)

Handlers == {"first", "second"}

EncBlobs ==
    {SavedBy("hospital_behavior_dataset_1.csv"), SavedBy("hospital_behavior_dataset_2.csv")}

EncBatches == {DataFrame(<<rec>>, RawColumns) : rec \in {NurseView, DoctorDelete, GuestBadTime}}

\* df_processed of each request and of the frame no request has set yet
EncProcessed ==
    [df \in EncBatches \cup {DataFrame(<<>>, RawColumns)} |-> preprocess_data(df)]

NoLocals == [k |-> 0, known_categories |-> <<>>, current_classes |-> <<>>, encoded |-> <<>>]

\* the categorical features of the handler's processed frame, in loop order
EncFeatures(h) ==
    SelectSeq(categorical_features,
              LAMBDA f : f \in EncProcessed[call[h].df].columns)

\* the feature the handler's loop is at, and its cell as a string
EncFeature(h) == EncFeatures(h)[result[h].k]
EncCell(h) == AsStr(EncFeature(h), EncProcessed[call[h].df].rows[1])

\* the loop moves on to the next feature, or encode_features returns
EncAdvance(h, code) ==
    LET encoded == Append(result[h].encoded, code) IN
    /\ result' = [result EXCEPT ![h] =
                     [NoLocals EXCEPT !.k = IF result[h].k < Len(EncFeatures(h))
                                            THEN result[h].k + 1 ELSE result[h].k,
                                      !.encoded = encoded]]
    /\ pc' = [pc EXCEPT ![h] = IF result[h].k < Len(EncFeatures(h))
                               THEN "known" ELSE "done"]

EncInit ==
    /\ disk \in EncBlobs
    /\ label_encoders = Constructed(disk).label_encoders
    /\ iso_forest = Constructed(disk).iso_forest
    /\ is_trained = Constructed(disk).is_trained
    /\ fitted_classes = Constructed(disk).fitted_classes
    /\ hash_seed = 0
    /\ pc = [h \in Handlers |-> "idle"]
    /\ call = [h \in Handlers |-> [df |-> DataFrame(<<>>, RawColumns)]]
    /\ result = [h \in Handlers |-> NoLocals]

\* lines 197-203: the is_trained guard, preprocess_data, the empty-frame return
EncStart(h) ==
    /\ pc[h] = "idle"
    /\ \E df \in EncBatches :
          /\ call' = [call EXCEPT ![h] = [df |-> df]]
          /\ IF NotTrained(is_trained) \/ Len(EncProcessed[df].rows) = 0
             THEN /\ pc' = [pc EXCEPT ![h] = "done"]
                  /\ result' = [result EXCEPT ![h] = NoLocals]
             ELSE /\ pc' = [pc EXCEPT ![h] = "known"]
                  /\ result' = [result EXCEPT ![h] = [NoLocals EXCEPT !.k = 1]]
    /\ UNCHANGED <<label_encoders, iso_forest, is_trained, disk, fitted_classes, hash_seed>>

\* lines 108-113 and the test of line 116: known_categories = set(classes_);
\* without an encoder, lines 122-124, the codes of pd.Categorical
ReadKnown(h) ==
    /\ pc[h] = "known"
    /\ IF EncFeature(h) \notin DOMAIN label_encoders
       THEN EncAdvance(h, 0)
       ELSE /\ result' = [result EXCEPT ![h].known_categories = label_encoders[EncFeature(h)]]
            /\ pc' = [pc EXCEPT ![h] =
                         IF "unknown" \notin Range(label_encoders[EncFeature(h)])
                         THEN "current" ELSE "transform"]
    /\ UNCHANGED <<label_encoders, iso_forest, is_trained, disk, fitted_classes,
                   hash_seed, call>>

\* lines 117-118: current_classes = list(classes_); append('unknown')
ReadCurrent(h) ==
    /\ pc[h] = "current"
    /\ result' = [result EXCEPT ![h].current_classes =
                     AddUnknownAlways(label_encoders[EncFeature(h)])]
    /\ pc' = [pc EXCEPT ![h] = "write"]
    /\ UNCHANGED <<label_encoders, iso_forest, is_trained, disk, fitted_classes,
                   hash_seed, call>>

\* line 119: classes_ = np.array(current_classes)
WriteClasses(h) ==
    /\ pc[h] = "write"
    /\ label_encoders' = [label_encoders EXCEPT ![EncFeature(h)] = result[h].current_classes]
    /\ pc' = [pc EXCEPT ![h] = "transform"]
    /\ UNCHANGED <<iso_forest, is_trained, disk, fitted_classes, hash_seed, call, result>>

\* line 121: transform of the remapped cell with classes_ as it stands
Transform(h) ==
    /\ pc[h] = "transform"
    /\ EncAdvance(h, transform(label_encoders[EncFeature(h)],
                               Remap(result[h].known_categories, EncCell(h))))
    /\ UNCHANGED <<label_encoders, iso_forest, is_trained, disk, fitted_classes,
                   hash_seed, call>>

EncNext ==
    \E h \in Handlers :
        \/ EncStart(h)
        \/ ReadKnown(h)
        \/ ReadCurrent(h)
        \/ WriteClasses(h)
        \/ Transform(h)

EncSpec == EncInit /\ [][EncNext]_vars

\* both handlers are through encode_features
EncBothDone == \A h \in Handlers : pc[h] = "done"

\* the features whose vocabulary a handler's encode_features went through
EncTouched ==
    UNION {IF result[h].k = 0 THEN {} ELSE Range(EncFeatures(h)) \cap DOMAIN fitted_classes
           : h \in Handlers}

\* the vocabulary of f after the two calls ran one after the other
SequentialClasses(f) == AddUnknown(AddUnknown(fitted_classes[f]))

\* C30 as claimed: after two predict calls interleaved at the reads and writes
\* of classes_, every vocabulary they went through holds 'unknown' exactly
\* once, and 'unknown' and every fitted value have the code they have after
\* the two calls ran one after the other.
C30_InterleavedAsSequential ==
    EncBothDone =>
        \A f \in EncTouched :
            /\ Occurrences(label_encoders[f], "unknown") = 1
            /\ \A v \in Range(SequentialClasses(f)) :
                  transform(label_encoders[f], v) = transform(SequentialClasses(f), v)
====
